---- MODULE Spec2Model ----
(***************************************************************************)
(* AISecurityMonitor (ai_security_monitor.py): per-source rate window,     *)
(* input pattern analysis, threat assessment, incident log, alert          *)
(* dispatch and incident summary.                                          *)
(*                                                                         *)
(* Instants are whole seconds since the monitor's start.  A dict is a set  *)
(* of <<key, value>> pairs or a record whose DOMAIN is the set of keys     *)
(* that are present.                                                       *)
(***************************************************************************)
EXTENDS Integers, Sequences, FiniteSets, TLC

VARIABLES
    now,              \* the clock, as datetime.now() reads it
    alert_settings,   \* self.alert_settings
    request_history,  \* self.request_history: source -> instants
    incident_log,     \* self.incident_log
    alerts,           \* the send attempts made, each by the log index of its incident
    ret,              \* what the last call gave its caller
    seen,             \* source -> number of rate checks made for it so far
    calls,            \* number of detect_threat calls made
    ticks,            \* number of clock steps taken
    analysis,         \* the last input assessed on its own, with its assessment
    threads           \* thread -> the position and locals of its detect_threat call

vars == <<now, alert_settings, request_history, incident_log, alerts,
          ret, seen, calls, ticks, analysis, threads>>

(* What the calls of a single caller leave alone. *)
aux == <<analysis, threads>>

(***************************************************************************)
(* Bounds of the exploration.                                              *)
(***************************************************************************)
MaxCalls == 2
MaxTicks == 2

(***************************************************************************)
(* Program constants.                                                      *)
(***************************************************************************)
WindowSeconds == 60
SecondsPerHour == 3600
SecondsPerMinute == 60
SecondsPerDay == 86400
ExtremeLimit == 1000000
SparsityPercent == 100
GradientLimit == 100

(***************************************************************************)
(* The environment: sources, clock steps, configurations.                  *)
(***************************************************************************)
Sources == {"10.0.0.1", "10.0.0.2"}
ClockSteps == {30, 3570}
Hours == {1, 24}

Last(s) == s[Len(s)]

Has(dict, key) == \E kv \in dict : kv[1] = key
Get(dict, key) == (CHOOSE kv \in dict : kv[1] = key)[2]

(***************************************************************************)
(* datetime.isoformat / datetime.fromisoformat: the instant is written as  *)
(* <<day, hour, minute, second>> and read back from those fields.          *)
(***************************************************************************)
isoformat_time_only(t) ==
    << 0, 0, (t % SecondsPerHour) \div SecondsPerMinute, t % SecondsPerMinute >>

isoformat(t) ==
    << t \div SecondsPerDay,
       (t % SecondsPerDay) \div SecondsPerHour,
       (t % SecondsPerHour) \div SecondsPerMinute,
       t % SecondsPerMinute >>

fromisoformat(s) ==
    s[1] * SecondsPerDay + s[2] * SecondsPerHour + s[3] * SecondsPerMinute + s[4]

(***************************************************************************)
(* _check_rate_limit: the entries of the source's window that survive the  *)
(* prune at current_time, the window stored back, and the comparison.      *)
(***************************************************************************)
recent_requests_inclusive(history, current_time) ==
    SelectSeq(history, LAMBDA timestamp : current_time - timestamp <= WindowSeconds)

recent_requests(history, current_time) ==
    SelectSeq(history, LAMBDA timestamp : current_time - timestamp < WindowSeconds)

updated_history_unrecorded(history, current_time) ==
    recent_requests(history, current_time)

updated_history(history, current_time) ==
    recent_requests(history, current_time) \o <<current_time>>

store_history_shared(histories, ip_address, history) ==
    [s \in DOMAIN histories |-> history]

store_history(histories, ip_address, history) ==
    [histories EXCEPT ![ip_address] = history]

rate_exceeded(history, current_time, settings) ==
    Len(recent_requests(history, current_time))
        > Get(settings.alert_thresholds, "max_requests_per_minute")

has_threshold(settings) ==
    Has(settings.alert_thresholds, "max_requests_per_minute")

(***************************************************************************)
(* Inputs of the pattern analyzer.  An array-like of rank 0, 1 or 2 is     *)
(* held as its rows (a rank-0 or rank-1 array has one row); ragged nested  *)
(* lists and text are the inputs numpy cannot treat as a numeric array.    *)
(***************************************************************************)
Scalar(x) == [numeric |-> TRUE, ragged |-> FALSE, rank |-> 0, rows |-> << <<x>> >>]
Vec(xs) == [numeric |-> TRUE, ragged |-> FALSE, rank |-> 1, rows |-> <<xs>>]
Mat(rs) == [numeric |-> TRUE, ragged |-> FALSE, rank |-> 2, rows |-> rs]
Ragged == [numeric |-> TRUE, ragged |-> TRUE, rank |-> 1, rows |-> << <<1, 2>>, <<3>> >>]
Text == [numeric |-> FALSE, ragged |-> FALSE, rank |-> 0, rows |-> << <<0>> >>]

Inputs ==
    { Vec(<<1, 2>>), Vec(<<2000000, 0>>), Vec(<<>>), Mat(<< <<2000000>> >>), Ragged, Text }

Abs(x) == IF x < 0 THEN -x ELSE x

Cells(a) == {ij \in (1..Len(a.rows)) \X (1..Len(a.rows[1])) : TRUE}

shape(a) ==
    CASE a.rank = 0 -> <<>>
      [] a.rank = 1 -> <<Len(a.rows[1])>>
      [] OTHER -> <<Len(a.rows), Len(a.rows[1])>>

size(a) == Cardinality(Cells(a))

count_nonzero(a) == Cardinality({ij \in Cells(a) : a.rows[ij[1]][ij[2]] # 0})

any_extreme(a) == \E ij \in Cells(a) : Abs(a.rows[ij[1]][ij[2]]) > ExtremeLimit

(***************************************************************************)
(* np.gradient with unit spacing, doubled so that it stays an integer:     *)
(* one-sided differences at the two ends of an axis, central differences   *)
(* (half the distance-two difference) inside.                              *)
(***************************************************************************)
gradient2(a, axis, i, j) ==
    LET n == IF axis = 0 THEN Len(a.rows) ELSE Len(a.rows[1])
        p == IF axis = 0 THEN i ELSE j
        at(q) == IF axis = 0 THEN a.rows[q][j] ELSE a.rows[i][q]
    IN  IF p = 1 THEN 2 * (at(2) - at(1))
        ELSE IF p = n THEN 2 * (at(n) - at(n - 1))
        ELSE at(p + 1) - at(p - 1)

gradient_fails(a) == \E d \in 1..Len(shape(a)) : shape(a)[d] < 2

all_gradients_steep(a) ==
    \A axis \in {0, 1} : \A ij \in Cells(a) :
        Abs(gradient2(a, axis, ij[1], ij[2])) > 2 * GradientLimit

is_sparse_inclusive(a) == SparsityPercent * count_nonzero(a) <= size(a)

is_sparse(a) == SparsityPercent * count_nonzero(a) < size(a)

(***************************************************************************)
(* _analyze_input_patterns: the checks in the order of the code; a failure *)
(* at any of them leaves the labels appended so far and appends            *)
(* analysis_error.                                                         *)
(***************************************************************************)
_analyze_input_patterns_sparsity_first(input_data) ==
    LET failed(labels) == Append(labels, "analysis_error")
        s1 == IF is_sparse(input_data) THEN <<"suspicious_sparsity">> ELSE <<>>
        s2 == IF any_extreme(input_data) THEN Append(s1, "extreme_values") ELSE s1
        s3 == IF all_gradients_steep(input_data)
              THEN Append(s2, "potential_adversarial_pattern") ELSE s2
        labels ==
            IF input_data.ragged THEN failed(<<>>)
            ELSE IF ~input_data.numeric THEN failed(<<>>)
            ELSE IF size(input_data) = 0 THEN failed(<<>>)
            ELSE IF Len(shape(input_data)) > 1
                 THEN IF gradient_fails(input_data) THEN failed(s2) ELSE s3
                 ELSE s2
    IN  [suspicious_patterns |-> labels, details |-> {}]

_analyze_input_patterns(input_data) ==
    LET failed(labels) == Append(labels, "analysis_error")
        s1 == IF any_extreme(input_data) THEN <<"extreme_values">> ELSE <<>>
        s2 == IF is_sparse(input_data)
              THEN Append(s1, "suspicious_sparsity") ELSE s1
        s3 == IF all_gradients_steep(input_data)
              THEN Append(s2, "potential_adversarial_pattern") ELSE s2
        labels ==
            IF input_data.ragged THEN failed(<<>>)
            ELSE IF ~input_data.numeric THEN failed(<<>>)
            ELSE IF size(input_data) = 0 THEN failed(s1)
            ELSE IF Len(shape(input_data)) > 1
                 THEN IF gradient_fails(input_data) THEN failed(s2) ELSE s3
                 ELSE s2
    IN  [suspicious_patterns |-> labels, details |-> {}]

(***************************************************************************)
(* detect_threat, lines 49-66: the assessment starts low and empty, the    *)
(* rate rule and then the pattern rule amend it.                           *)
(***************************************************************************)
Severities == <<"low", "medium", "high">>

threat_assessment_rate_last(timestamp, exceeded, pattern_check) ==
    LET a0 == [timestamp |-> timestamp, severity |-> "low",
               threats_detected |-> <<>>, details |-> {}]
        a1 == IF pattern_check.suspicious_patterns # <<>>
              THEN [a0 EXCEPT !.threats_detected = @ \o pattern_check.suspicious_patterns,
                              !.severity = "high",
                              !.details = @ \cup {<<"patterns", pattern_check>>}]
              ELSE a0
    IN  IF exceeded
        THEN [a1 EXCEPT !.threats_detected = <<"rate_limit_exceeded">> \o @,
                        !.severity = "medium"]
        ELSE a1

threat_assessment_rate_low(timestamp, exceeded, pattern_check) ==
    LET a0 == [timestamp |-> timestamp, severity |-> "low",
               threats_detected |-> <<>>, details |-> {}]
        a1 == IF exceeded
              THEN [a0 EXCEPT !.threats_detected = Append(@, "rate_limit_exceeded")]
              ELSE a0
    IN  IF pattern_check.suspicious_patterns # <<>>
        THEN [a1 EXCEPT !.threats_detected = @ \o pattern_check.suspicious_patterns,
                        !.severity = "high",
                        !.details = @ \cup {<<"patterns", pattern_check>>}]
        ELSE a1

threat_assessment(timestamp, exceeded, pattern_check) ==
    LET a0 == [timestamp |-> timestamp, severity |-> "low",
               threats_detected |-> <<>>, details |-> {}]
        a1 == IF exceeded
              THEN [a0 EXCEPT !.threats_detected = Append(@, "rate_limit_exceeded"),
                              !.severity = "medium"]
              ELSE a0
    IN  IF pattern_check.suspicious_patterns # <<>>
        THEN [a1 EXCEPT !.threats_detected = @ \o pattern_check.suspicious_patterns,
                        !.severity = "high",
                        !.details = @ \cup {<<"patterns", pattern_check>>}]
        ELSE a1

should_log_always(assessment) == TRUE

should_log(assessment) == assessment.threats_detected # <<>>

(***************************************************************************)
(* _log_incident: the incident record, and whether its severity warrants   *)
(* an alert.                                                               *)
(***************************************************************************)
make_incident(assessment, ip_address) ==
    [timestamp |-> assessment.timestamp,
     severity |-> assessment.severity,
     threats |-> assessment.threats_detected,
     ip_address |-> ip_address,
     details |-> assessment.details]

warrants_alert_high_only(severity) == severity = "high"

warrants_alert(severity) == severity \in {"medium", "high"}

(***************************************************************************)
(* _send_alert: the transport may fail while the message is built from the *)
(* settings, on connect, on STARTTLS, on login or on send.  What the       *)
(* caller of _send_alert sees is the exception that leaves it: none.       *)
(***************************************************************************)
TransportOutcomes(settings) ==
    IF "server" \notin settings.smtp_settings THEN {"settings_failed"}
    ELSE {"sent", "connect_failed", "send_failed"}
         \cup (IF "use_tls" \in settings.smtp_settings THEN {"starttls_failed"} ELSE {})
         \cup (IF "username" \in settings.smtp_settings THEN {"login_failed"} ELSE {})

_send_alert_unguarded(outcome) == IF outcome = "sent" THEN "" ELSE outcome

_send_alert(outcome) == ""

(***************************************************************************)
(* What the last call gave its caller (raised is the exception that left   *)
(* it, "" when it returned), with the values its checks computed.          *)
(***************************************************************************)
NoAssessment ==
    [timestamp |-> isoformat(0), severity |-> "", threats_detected |-> <<>>, details |-> {}]

NoSummary ==
    [total_incidents |-> 0, by_severity |-> {}, unique_ips |-> 0,
     most_common_threats |-> <<>>]

NoCall ==
    [op |-> "", keys |-> {}, raised |-> "", ip_address |-> "", current_time |-> -1,
     recent_count |-> -1, rate_exceeded |-> FALSE, patterns |-> <<>>,
     assessment |-> NoAssessment, alert |-> "",
     hours |-> -1, summary |-> NoSummary]

Raise_swallowed(r, error) == r

Raise(r, error) == [r EXCEPT !.raised = error]

(***************************************************************************)
(* detect_threat(request_data).  The call is instantaneous: its two clock   *)
(* reads (the assessment's timestamp, the rate check's current_time) give  *)
(* the same instant.                                                       *)
(***************************************************************************)
detect_threat(request_data) ==
    /\ calls < MaxCalls
    /\ calls' = calls + 1
    /\ UNCHANGED <<alert_settings, ticks, aux>>
    /\ LET timestamp == isoformat(now)
           r0 == [NoCall EXCEPT !.op = "detect_threat", !.keys = DOMAIN request_data]
       IN
       IF "ip_address" \notin DOMAIN request_data
       THEN /\ ret' = Raise(r0, "KeyError: ip_address")
            /\ UNCHANGED <<now, request_history, incident_log, alerts, seen>>
       ELSE
       LET ip_address == request_data.ip_address
           current_time == now
           history == request_history[ip_address]
           r1 == [r0 EXCEPT !.ip_address = ip_address,
                            !.current_time = current_time,
                            !.recent_count = Len(recent_requests(history, current_time))]
       IN
       /\ UNCHANGED now
       /\ request_history' =
              store_history(request_history, ip_address,
                            updated_history(history, current_time))
       /\ seen' = [seen EXCEPT ![ip_address] = @ + 1]
       /\ IF ~has_threshold(alert_settings)
          THEN /\ ret' = Raise(r1, "KeyError: max_requests_per_minute")
               /\ UNCHANGED <<incident_log, alerts>>
          ELSE IF "input_data" \notin DOMAIN request_data
          THEN /\ ret' = Raise(r1, "KeyError: input_data")
               /\ UNCHANGED <<incident_log, alerts>>
          ELSE
          LET pattern_check == _analyze_input_patterns(request_data.input_data)
              assessment ==
                  threat_assessment(timestamp,
                                    rate_exceeded(history, current_time, alert_settings),
                                    pattern_check)
              r2 == [r1 EXCEPT !.assessment = assessment,
                               !.rate_exceeded =
                                   rate_exceeded(history, current_time, alert_settings),
                               !.patterns = pattern_check.suspicious_patterns]
          IN
          IF ~should_log(assessment)
          THEN /\ ret' = r2
               /\ UNCHANGED <<incident_log, alerts>>
          ELSE
          /\ incident_log' = Append(incident_log, make_incident(assessment, ip_address))
          /\ IF ~warrants_alert(assessment.severity)
             THEN /\ ret' = r2
                  /\ UNCHANGED alerts
             ELSE \E outcome \in TransportOutcomes(alert_settings) :
                  /\ alerts' = Append(alerts, Len(incident_log) + 1)
                  /\ ret' = Raise([r2 EXCEPT !.alert = outcome], _send_alert(outcome))

(***************************************************************************)
(* _get_common_threats: the labels are counted in a dict, whose keys stay  *)
(* in the order of their first occurrence, and the items are then sorted   *)
(* by count, largest first, with a stable sort.                            *)
(***************************************************************************)
RECURSIVE all_threats(_)
all_threats(incidents) ==
    IF incidents = <<>> THEN <<>>
    ELSE Head(incidents).threats \o all_threats(Tail(incidents))

RECURSIVE first_occurrences(_)
first_occurrences(labels) ==
    IF labels = <<>> THEN <<>>
    ELSE LET front == first_occurrences(SubSeq(labels, 1, Len(labels) - 1))
         IN  IF \E i \in 1..Len(front) : front[i] = Last(labels)
             THEN front ELSE Append(front, Last(labels))

occurrences(label, labels) == Cardinality({i \in 1..Len(labels) : labels[i] = label})

threat_counts(incidents) ==
    LET labels == all_threats(incidents)
        keys == first_occurrences(labels)
    IN  [i \in 1..Len(keys) |-> <<keys[i], occurrences(keys[i], labels)>>]

sorts_before_ascending(x, y) == x[2] <= y[2]

sorts_before(x, y) == x[2] >= y[2]

RECURSIVE sorted(_)
sorted(items) ==
    IF items = <<>> THEN <<>>
    ELSE LET front == sorted(SubSeq(items, 1, Len(items) - 1))
             item == Last(items)
             keep == Cardinality({i \in 1..Len(front) : sorts_before(front[i], item)})
         IN  SubSeq(front, 1, keep) \o <<item>> \o SubSeq(front, keep + 1, Len(front))

_get_common_threats(incidents) == sorted(threat_counts(incidents))

(***************************************************************************)
(* get_incident_summary(hours).                                            *)
(***************************************************************************)
in_window_inclusive(incident, cutoff_time) ==
    fromisoformat(incident.timestamp) >= cutoff_time

in_window(incident, cutoff_time) == fromisoformat(incident.timestamp) > cutoff_time

recent_incidents(log, current_time, hours) ==
    SelectSeq(log, LAMBDA incident : in_window(incident, current_time - hours * SecondsPerHour))

by_severity(incidents) ==
    { <<Severities[k],
        Cardinality({i \in 1..Len(incidents) : incidents[i].severity = Severities[k]})>>
      : k \in 1..Len(Severities) }

summary_of(incidents) ==
    [total_incidents |-> Len(incidents),
     by_severity |-> by_severity(incidents),
     unique_ips |-> Cardinality({incidents[i].ip_address : i \in 1..Len(incidents)}),
     most_common_threats |-> _get_common_threats(incidents)]

get_incident_summary_purging(hours) ==
    /\ ret' = [NoCall EXCEPT !.op = "get_incident_summary",
                             !.current_time = now,
                             !.hours = hours,
                             !.summary = summary_of(recent_incidents(incident_log, now, hours))]
    /\ incident_log' = recent_incidents(incident_log, now, hours)
    /\ UNCHANGED <<now, alert_settings, request_history, alerts, seen, calls, ticks, aux>>

get_incident_summary(hours) ==
    /\ ret' = [NoCall EXCEPT !.op = "get_incident_summary",
                             !.current_time = now,
                             !.hours = hours,
                             !.summary = summary_of(recent_incidents(incident_log, now, hours))]
    /\ UNCHANGED <<now, alert_settings, request_history, incident_log, alerts,
                   seen, calls, ticks, aux>>

(***************************************************************************)
(* The clock advances between calls.                                       *)
(***************************************************************************)
Tick(step) ==
    /\ ticks < MaxTicks
    /\ ticks' = ticks + 1
    /\ now' = now + step
    /\ UNCHANGED <<alert_settings, request_history, incident_log, alerts, ret, seen, calls,
                   aux>>

(***************************************************************************)
(* The settings and the requests explored.                                 *)
(***************************************************************************)
Settings(thresholds, smtp) == [alert_thresholds |-> thresholds, smtp_settings |-> smtp]

AlertSettings ==
    { Settings({}, {"server"}),
      Settings({<<"max_requests_per_minute", 0>>}, {"server", "use_tls", "username"}),
      Settings({<<"max_requests_per_minute", 1>>}, {}) }

Requests ==
    [ip_address : Sources, input_data : Inputs]
        \cup [ip_address : Sources] \cup [input_data : {Vec(<<1, 2>>)}]

(***************************************************************************)
(* The assessment of one input on its own: lines 61-66 of detect_threat    *)
(* applied to an input and to either result of the rate check.             *)
(***************************************************************************)
Sparse(n, k, v) == Vec([i \in 1..n |-> IF i <= k THEN v ELSE 0])

Grid(r, c, a, b, base) ==
    Mat([i \in 1..r |-> [j \in 1..c |-> base + a * (i - 1) + b * (j - 1)]])

SparseLengths == {1, 2, 99, 100, 101, 200, 201}

AnalyzerInputs ==
    Inputs
    \cup {Sparse(n, k, v) : n \in SparseLengths, k \in 0..1, v \in {1, 2000000}}
    \cup {Sparse(n, 2, 1) : n \in SparseLengths \ {1}}
    \cup {Scalar(x) : x \in {0, 7, -2000000}}
    \cup {Grid(r, c, a, b, base) :
              r \in 1..3, c \in 1..3, a \in {0, 100, 101}, b \in {-101, 101},
              base \in {0, 2000000}}
    \cup {Grid(r, 101, 0, 0, 0) : r \in 1..2}
    \cup {Mat(<< <<0, 300, 0>>, <<300, 0, 300>>, <<0, 300, 0>> >>)}

NoAnalysis ==
    [input_data |-> Text, rate_exceeded |-> FALSE,
     pattern_check |-> [suspicious_patterns |-> <<>>, details |-> {}],
     assessment |-> NoAssessment]

assess_input(input_data, exceeded) ==
    /\ analysis' =
           [input_data |-> input_data,
            rate_exceeded |-> exceeded,
            pattern_check |-> _analyze_input_patterns(input_data),
            assessment |-> threat_assessment(isoformat(now), exceeded,
                                             _analyze_input_patterns(input_data))]
    /\ UNCHANGED <<now, alert_settings, request_history, incident_log, alerts,
                   ret, seen, calls, ticks, threads>>

(***************************************************************************)
(* detect_threat called from several threads with no lock.  A thread can   *)
(* be preempted between any two bytecodes; the steps below are the points  *)
(* at which it touches the shared history and log.                         *)
(*   check:   line 50 done, about to read the history (lines 78-82)        *)
(*   store:   recent_requests computed, about to store (line 85)           *)
(*   assess:  rate check returned, lines 57-66 and 69 to run               *)
(*   log:     incident built, about to append (line 138)                   *)
(*   send:    about to call _send_alert (line 142)                         *)
(* overlapped records that another thread stored the same source's history *)
(* between this thread's read and its own store.                           *)
(***************************************************************************)
Threads == {1, 2}

ThreadInputs == {Vec(<<1, 2>>), Vec(<<2000000, 0>>)}

ThreadClockSteps == {60}

NoIncident == make_incident(NoAssessment, "")

IdleThread ==
    [pc |-> "idle", ip_address |-> "", input_data |-> Text,
     timestamp |-> isoformat(0), current_time |-> -1, recent |-> <<>>,
     overlapped |-> FALSE, assessment |-> NoAssessment, incident |-> NoIncident,
     logged_at |-> 0, sends |-> 0, alert |-> ""]

after_assess(assessment) == IF should_log(assessment) THEN "log" ELSE "done"

after_log(incident) == IF warrants_alert(incident.severity) THEN "send" ELSE "done"

after_send_retrying(outcome) == IF outcome = "sent" THEN "done" ELSE "send"

after_send(outcome) == "done"

monitor_idle == UNCHANGED <<alert_settings, ret, seen, calls, ticks, analysis>>

t_call(t, request_data) ==
    /\ threads[t].pc = "idle"
    /\ threads' = [threads EXCEPT ![t] =
                      [@ EXCEPT !.pc = "check",
                                !.timestamp = isoformat(now),
                                !.ip_address = request_data.ip_address,
                                !.input_data = request_data.input_data]]
    /\ UNCHANGED <<now, request_history, incident_log, alerts>>
    /\ monitor_idle

t_read(t) ==
    /\ threads[t].pc = "check"
    /\ threads' = [threads EXCEPT ![t] =
                      [@ EXCEPT !.pc = "store",
                                !.current_time = now,
                                !.recent = recent_requests(
                                               request_history[threads[t].ip_address], now)]]
    /\ UNCHANGED <<now, request_history, incident_log, alerts>>
    /\ monitor_idle

t_store(t) ==
    /\ threads[t].pc = "store"
    /\ request_history' =
           store_history(request_history, threads[t].ip_address,
                         threads[t].recent \o <<threads[t].current_time>>)
    /\ threads' =
           [u \in Threads |->
               IF u = t THEN [threads[t] EXCEPT !.pc = "assess"]
               ELSE IF threads[u].pc = "store"
                       /\ threads[u].ip_address = threads[t].ip_address
                    THEN [threads[u] EXCEPT !.overlapped = TRUE]
                    ELSE threads[u]]
    /\ UNCHANGED <<now, incident_log, alerts>>
    /\ monitor_idle

t_assess(t) ==
    /\ threads[t].pc = "assess"
    /\ LET exceeded ==
               Len(threads[t].recent)
                   > Get(alert_settings.alert_thresholds, "max_requests_per_minute")
           assessment ==
               threat_assessment(threads[t].timestamp, exceeded,
                                 _analyze_input_patterns(threads[t].input_data))
       IN  threads' = [threads EXCEPT ![t] =
                          [@ EXCEPT !.pc = after_assess(assessment),
                                    !.assessment = assessment,
                                    !.incident =
                                        make_incident(assessment, threads[t].ip_address)]]
    /\ UNCHANGED <<now, request_history, incident_log, alerts>>
    /\ monitor_idle

t_log(t) ==
    /\ threads[t].pc = "log"
    /\ incident_log' = Append(incident_log, threads[t].incident)
    /\ threads' = [threads EXCEPT ![t] =
                      [@ EXCEPT !.pc = after_log(threads[t].incident),
                                !.logged_at = Len(incident_log) + 1]]
    /\ UNCHANGED <<now, request_history, alerts>>
    /\ monitor_idle

t_send(t) ==
    /\ threads[t].pc = "send"
    /\ \E outcome \in TransportOutcomes(alert_settings) :
           threads' = [threads EXCEPT ![t] =
                          [@ EXCEPT !.pc = after_send(outcome),
                                    !.sends = @ + 1,
                                    !.alert = outcome]]
    /\ alerts' = Append(alerts, threads[t].logged_at)
    /\ UNCHANGED <<now, request_history, incident_log>>
    /\ monitor_idle

(***************************************************************************)
(* __init__ stores the settings it is given and starts with an empty log   *)
(* and an empty history for every source.                                  *)
(***************************************************************************)
Init ==
    /\ now = 0
    /\ alert_settings \in AlertSettings
    /\ request_history = [s \in Sources |-> <<>>]
    /\ incident_log = <<>>
    /\ alerts = <<>>
    /\ ret = NoCall
    /\ seen = [s \in Sources |-> 0]
    /\ calls = 0
    /\ ticks = 0
    /\ analysis = NoAnalysis
    /\ threads = [t \in Threads |-> IdleThread]

Next ==
    \/ \E request_data \in Requests : detect_threat(request_data)
    \/ \E hours \in Hours : get_incident_summary(hours)
    \/ \E step \in ClockSteps : Tick(step)

Spec == Init /\ [][Next]_vars

NextAnalyze ==
    \E input_data \in AnalyzerInputs, exceeded \in BOOLEAN :
        assess_input(input_data, exceeded)

SpecAnalyze == Init /\ [][NextAnalyze]_vars

InitConc == Init /\ has_threshold(alert_settings)

NextConc ==
    \/ \E t \in Threads :
           \E request_data \in [ip_address : Sources, input_data : ThreadInputs] :
               t_call(t, request_data)
    \/ \E t \in Threads : t_read(t)
    \/ \E t \in Threads : t_store(t)
    \/ \E t \in Threads : t_assess(t)
    \/ \E t \in Threads : t_log(t)
    \/ \E t \in Threads : t_send(t)
    \/ \E step \in ThreadClockSteps : Tick(step)

SpecConc == InitConc /\ [][NextConc]_vars

(***************************************************************************)
(* Properties.                                                             *)
(***************************************************************************)
Range(seq) == {seq[i] : i \in 1..Len(seq)}

IsPrefix(s, t) == Len(s) <= Len(t) /\ SubSeq(t, 1, Len(s)) = s

DetectReturned == ret.op = "detect_threat" /\ ret.raised = ""

DetectStep == calls' = calls + 1

SummaryStep == calls' = calls /\ ticks' = ticks /\ ret'.op = "get_incident_summary"

Threshold == Get(alert_settings.alert_thresholds, "max_requests_per_minute")

(* The source of the last call has made all its calls within one window:  *)
(* none of its instants has ever been pruned.                             *)
InOneBurst == seen[ret.ip_address] = Len(request_history[ret.ip_address])

(* C1: with threshold T, in a burst of calls from one source with no prior *)
(* history that all fall within one 60-second window, none of the first T  *)
(* calls reports rate_limit_exceeded and the (T+1)th call reports it.      *)
C1_BurstTripsAtTPlusOne ==
    (DetectReturned /\ InOneBurst) =>
        LET k == Len(request_history[ret.ip_address])
            reported == "rate_limit_exceeded" \in Range(ret.assessment.threats_detected)
        IN  /\ k <= Threshold => ~reported
            /\ k = Threshold + 1 => reported

(* C2: after every rate check for a source at instant now, the source's    *)
(* stored sequence ends with now and every entry before it is less than 60 *)
(* seconds older than now; a request arriving more than 60 seconds after   *)
(* the last request of a burst counts none of the burst's entries and is   *)
(* not reported as rate-limited.                                           *)
C2_WindowPrunedOnCheck ==
    [][ (DetectStep /\ ret'.ip_address # "") =>
          LET before == request_history[ret'.ip_address]
              after == request_history'[ret'.ip_address]
              t == ret'.current_time
          IN  /\ after # <<>>
              /\ Last(after) = t
              /\ \A i \in 1..(Len(after) - 1) :
                     t - after[i] < WindowSeconds /\ after[i] = before[Len(before) - Len(after) + 1 + i]
              /\ (before # <<>> /\ t - Last(before) > WindowSeconds) =>
                     /\ after = <<t>>
                     /\ ret'.recent_count = 0
                     /\ "rate_limit_exceeded" \notin Range(ret'.assessment.threats_detected)
      ]_vars

C2_Witness ==
    /\ DetectReturned
    /\ seen[ret.ip_address] = 2
    /\ ticks = 1
    /\ ret.current_time = 3570
    /\ request_history[ret.ip_address] = <<3570>>

(* C3: the severity of a returned assessment is high, with details.patterns *)
(* present, iff the analyzer returned a label; medium, without              *)
(* details.patterns, iff the rate limit was exceeded and the analyzer       *)
(* returned none; low iff the assessment has no label.                      *)
C3_SeverityFromChecks ==
    DetectReturned =>
        LET a == ret.assessment IN
        /\ a.severity \in Range(Severities)
        /\ (a.severity = "high" /\ Has(a.details, "patterns")) <=> ret.patterns # <<>>
        /\ (a.severity = "medium" /\ ~Has(a.details, "patterns"))
               <=> (ret.rate_exceeded /\ ret.patterns = <<>>)
        /\ a.severity = "low" <=> a.threats_detected = <<>>
        /\ a.severity = "low" <=> (~ret.rate_exceeded /\ ret.patterns = <<>>)

C3_Witness ==
    /\ DetectReturned
    /\ ret.rate_exceeded
    /\ ret.patterns # <<>>
    /\ ret.assessment.severity = "high"
    /\ Has(ret.assessment.details, "patterns")

(* C4: a detect_threat call appends exactly one incident, that of its       *)
(* assessment, when the assessment has a label, and none otherwise; so      *)
(* every logged incident has a label and a summary counts no more than the  *)
(* logged incidents.                                                        *)
C4_LoggedIffLabelled ==
    /\ [](/\ \A i \in 1..Len(incident_log) : incident_log[i].threats # <<>>
          /\ ret.op = "get_incident_summary" =>
                 ret.summary.total_incidents <= Len(incident_log))
    /\ [][ DetectStep =>
             IF ret'.raised = "" /\ ret'.assessment.threats_detected # <<>>
             THEN incident_log' =
                      Append(incident_log, make_incident(ret'.assessment, ret'.ip_address))
             ELSE incident_log' = incident_log
       ]_vars

C4_Witness ==
    /\ DetectReturned
    /\ ret.assessment.threats_detected = <<>>
    /\ calls = 2
    /\ Len(incident_log) = 1

(* C5: when the alert transport fails at any step during a detect_threat    *)
(* call, the call still returns its assessment and the incident of that     *)
(* call is the last entry of the incident log.                              *)
C5_TransportFailureIsolated ==
    (ret.op = "detect_threat" /\ ret.alert \notin {"", "sent"}) =>
        /\ ret.raised = ""
        /\ incident_log # <<>>
        /\ Last(incident_log) = make_incident(ret.assessment, ret.ip_address)
        /\ alerts # <<>>
        /\ Last(alerts) = Len(incident_log)

C5_Witness ==
    /\ DetectReturned
    /\ ret.alert = "login_failed"
    /\ incident_log # <<>>
    /\ Last(incident_log).timestamp = ret.assessment.timestamp

(* C6: whenever the pattern analysis of a call fails, analysis_error is the *)
(* only label the analyzer returns for that call, and the call returns.     *)
C6_AnalysisErrorAlone ==
    (ret.op = "detect_threat" /\ "analysis_error" \in Range(ret.patterns)) =>
        /\ ret.patterns = <<"analysis_error">>
        /\ ret.raised = ""

(* C7: a monitor whose settings lack max_requests_per_minute does not       *)
(* exist: no detect_threat call fails at call time for the missing          *)
(* threshold.                                                               *)
C7_NoHalfConfiguredMonitor ==
    ~(~has_threshold(alert_settings) /\ ret.op = "detect_threat")

(* C8: get_incident_summary(hours) at instant now counts exactly the logged *)
(* incidents whose timestamp is strictly later than now minus hours.        *)
Age(incident) == ret.current_time - fromisoformat(incident.timestamp)

C8_SummaryWindowStrict ==
    ret.op = "get_incident_summary" =>
        ret.summary.total_incidents =
            Cardinality({i \in 1..Len(incident_log) :
                             Age(incident_log[i]) < ret.hours * SecondsPerHour})

C8_Witness ==
    /\ ret.op = "get_incident_summary"
    /\ ret.hours = 1
    /\ Len(incident_log) = 2
    /\ Age(incident_log[1]) = SecondsPerHour
    /\ Age(incident_log[2]) < SecondsPerHour
    /\ ret.summary.total_incidents = 1

(* C9: the summary over the in-window incidents has total_incidents equal   *)
(* to their number, by_severity with exactly the keys low, medium and high  *)
(* whose counts sum to the total, unique_ips equal to the number of         *)
(* distinct sources, and most_common_threats giving every label that occurs *)
(* once, with its number of occurrences, in non-increasing order of count.  *)
InWindow ==
    SelectSeq(incident_log, LAMBDA incident : Age(incident) < ret.hours * SecondsPerHour)

C9_SummaryContents ==
    ret.op = "get_incident_summary" =>
        LET sm == ret.summary
            mct == sm.most_common_threats
            labels == UNION {Range(InWindow[i].threats) : i \in 1..Len(InWindow)}
            positions ==
                UNION {{<<i, j>> : j \in 1..Len(InWindow[i].threats)} : i \in 1..Len(InWindow)}
            uses(label) ==
                Cardinality({ij \in positions : InWindow[ij[1]].threats[ij[2]] = label})
        IN  /\ sm.total_incidents = Len(InWindow)
            /\ {kv[1] : kv \in sm.by_severity} = {"low", "medium", "high"}
            /\ Cardinality(sm.by_severity) = 3
            /\ Get(sm.by_severity, "low") + Get(sm.by_severity, "medium")
                   + Get(sm.by_severity, "high") = sm.total_incidents
            /\ sm.unique_ips =
                   Cardinality({s \in Sources :
                                   \E i \in 1..Len(InWindow) : InWindow[i].ip_address = s})
            /\ {mct[i][1] : i \in 1..Len(mct)} = labels
            /\ Len(mct) = Cardinality(labels)
            /\ \A i \in 1..Len(mct) : mct[i][2] = uses(mct[i][1])
            /\ \A i \in 1..(Len(mct) - 1) : mct[i][2] >= mct[i + 1][2]

C9_Witness ==
    /\ ret.op = "get_incident_summary"
    /\ ret.summary.most_common_threats = << <<"analysis_error", 2>>, <<"extreme_values", 1>> >>
    /\ ret.summary.unique_ips = 2
    /\ incident_log[1].threats = <<"extreme_values", "analysis_error">>

(* C10: get_incident_summary leaves the incident log and every source's     *)
(* rate window unchanged, and at every step the incident log before it is a *)
(* prefix of the incident log after it.                                     *)
C10_LogOnlyGrows ==
    [][ /\ IsPrefix(incident_log, incident_log')
        /\ SummaryStep => UNCHANGED <<incident_log, request_history>>
      ]_vars

C10_Witness ==
    /\ ret.op = "get_incident_summary"
    /\ ret.summary.total_incidents < Len(incident_log)
    /\ \E s \in Sources : request_history[s] # <<>>

RateChecked == ret.op = "detect_threat" /\ ret.ip_address # ""

(* C11: a send is attempted during a detect_threat call iff the call        *)
(* returns an assessment of severity medium or high; a call of severity low *)
(* attempts none.                                                           *)
C11_SendIffMediumOrHigh ==
    [][ DetectStep =>
          IF ret'.raised = "" /\ ret'.assessment.severity \in {"medium", "high"}
          THEN alerts' = Append(alerts, Len(incident_log')) /\ ret'.alert # ""
          ELSE alerts' = alerts /\ ret'.alert = ""
      ]_vars

C11_Witness ==
    /\ DetectReturned
    /\ ret.assessment.severity = "medium"
    /\ ret.alert # ""
    /\ alerts = <<1>>

(* C12: a detect_threat call on a request that lacks ip_address or          *)
(* input_data raises to its caller, returns no assessment, appends no       *)
(* incident and attempts no send.                                           *)
C12_BadRequestRaises ==
    [][ (DetectStep /\ ret'.keys # {"ip_address", "input_data"}) =>
          /\ ret'.raised # ""
          /\ "ip_address" \notin ret'.keys => ret'.raised = "KeyError: ip_address"
          /\ ret'.assessment = NoAssessment
          /\ ret'.alert = ""
          /\ UNCHANGED <<incident_log, alerts>>
      ]_vars

C12_Witness ==
    /\ ret.op = "detect_threat"
    /\ ret.keys = {"ip_address"}
    /\ ret.raised = "KeyError: input_data"
    /\ calls = 2
    /\ Len(incident_log) = 1

(* C16: a detect_threat call for one source leaves the window of every      *)
(* other source unchanged, and the number of earlier requests a rate check  *)
(* counts for a source in a burst is the number of that source's own        *)
(* earlier requests, whatever the other sources sent in between.            *)
C16_OtherWindowsUntouched ==
    /\ [][ DetectStep =>
             \A s \in Sources :
                 s # ret'.ip_address => request_history'[s] = request_history[s]
       ]_vars
    /\ []((RateChecked /\ ticks = 0) => ret.recent_count = seen[ret.ip_address] - 1)

C16_Witness ==
    /\ DetectReturned
    /\ Threshold = 0
    /\ ticks = 0
    /\ \E s \in Sources : s # ret.ip_address /\ seen[s] = 1
    /\ seen[ret.ip_address] = 1
    /\ ~ret.rate_exceeded

(* C18: the timestamps of the incidents in the incident log are             *)
(* non-decreasing in list order.                                            *)
C18_LogChronological ==
    \A i \in 1..Len(incident_log) : \A j \in i..Len(incident_log) :
        fromisoformat(incident_log[i].timestamp) <= fromisoformat(incident_log[j].timestamp)

C18_Witness ==
    /\ Len(incident_log) = 2
    /\ fromisoformat(incident_log[1].timestamp) = 30
    /\ fromisoformat(incident_log[2].timestamp) = 3600

(* C19: every incident in the incident log has a label and severity medium  *)
(* or high; every summary counts no low incident; the send attempts made    *)
(* are one for each logged incident, in log order.                          *)
C19_NoLowIncident ==
    /\ \A i \in 1..Len(incident_log) :
           /\ incident_log[i].threats # <<>>
           /\ incident_log[i].severity \in {"medium", "high"}
    /\ Len(alerts) = Len(incident_log)
    /\ \A i \in 1..Len(alerts) : alerts[i] = i
    /\ ret.op = "get_incident_summary" => Get(ret.summary.by_severity, "low") = 0

C19_Witness ==
    /\ ret.op = "get_incident_summary"
    /\ ret.summary.total_incidents = 2
    /\ Get(ret.summary.by_severity, "medium") = 1
    /\ Get(ret.summary.by_severity, "high") = 1
    /\ alerts = <<1, 2>>

(* C20: a detect_threat call that raises because input_data or the          *)
(* threshold is missing has already stored its instant as the last entry of *)
(* the source's window, and the instant stays: in a burst the window holds  *)
(* one entry for every rate check made, raising or not.                     *)
C20_InstantKeptOnRaise ==
    /\ [][ (DetectStep /\ ret'.raised \in {"KeyError: input_data",
                                           "KeyError: max_requests_per_minute"}) =>
             LET after == request_history'[ret'.ip_address]
             IN  /\ after # <<>>
                 /\ Last(after) = now
                 /\ Len(after) = ret'.recent_count + 1
       ]_vars
    /\ [](\A s \in Sources : ticks = 0 => Len(request_history[s]) = seen[s])

C20_Witness ==
    /\ ret.op = "detect_threat"
    /\ ret.raised = "KeyError: input_data"
    /\ seen[ret.ip_address] = 2
    /\ request_history[ret.ip_address] = <<30, 30>>

Analyzed == analysis # NoAnalysis

Labelled(label) == label \in Range(analysis.assessment.threats_detected)

(* C13: for a non-empty numeric input of n elements, k of them non-zero,    *)
(* suspicious_sparsity is emitted exactly when 100 * k < n; one non-zero    *)
(* element of 100 does not emit it, none of 100 does.                       *)
C13_SparsityBelowOnePercent ==
    LET a == analysis.input_data
        n == Len(a.rows) * Len(a.rows[1])
        k == Cardinality({ij \in (1..Len(a.rows)) \X (1..Len(a.rows[1])) :
                              a.rows[ij[1]][ij[2]] # 0})
    IN  Analyzed =>
            /\ (a.numeric /\ ~a.ragged /\ n > 0) =>
                   /\ Labelled("suspicious_sparsity") <=> 100 * k < n
                   /\ Labelled("suspicious_sparsity") <=>
                          "suspicious_sparsity"
                              \in Range(analysis.pattern_check.suspicious_patterns)
            /\ a = Sparse(100, 1, 1) => ~Labelled("suspicious_sparsity")
            /\ a = Sparse(100, 0, 1) => Labelled("suspicious_sparsity")

C13_Witness ==
    /\ Analyzed
    /\ analysis.input_data = Sparse(100, 1, 1)
    /\ analysis.assessment.threats_detected = <<>>

detection_rank(label) ==
    CASE label = "rate_limit_exceeded" -> 0
      [] label = "extreme_values" -> 1
      [] label = "suspicious_sparsity" -> 2
      [] label = "potential_adversarial_pattern" -> 3
      [] label = "analysis_error" -> 4
      [] OTHER -> -1

(* C17: the labels of an assessment are in detection order with no label    *)
(* twice: rate_limit_exceeded first when the rate check tripped, then the   *)
(* analyzer's labels as extreme_values, suspicious_sparsity,                *)
(* potential_adversarial_pattern (analysis_error, when present, last).      *)
C17_LabelsInDetectionOrder ==
    LET labels == analysis.assessment.threats_detected
    IN  Analyzed =>
            /\ \A i, j \in 1..Len(labels) :
                   i < j => /\ detection_rank(labels[i]) >= 0
                            /\ detection_rank(labels[i]) < detection_rank(labels[j])
            /\ Labelled("rate_limit_exceeded") <=> analysis.rate_exceeded
            /\ analysis.rate_exceeded => labels[1] = "rate_limit_exceeded"

C17_Witness ==
    /\ Analyzed
    /\ analysis.rate_exceeded
    /\ analysis.assessment.threats_detected =
           <<"rate_limit_exceeded", "extreme_values", "suspicious_sparsity">>

StoreStep(t) == threads[t].pc = "store" /\ threads'[t].pc = "assess"

Stored(t) == threads[t].pc \in {"assess", "log", "send", "done"}

(* C14: a call whose read, prune, append and store of its source's window   *)
(* ran with no other store of that source in between leaves every instant   *)
(* still inside the window in place and adds its own once; and every        *)
(* incident a thread appended is in the log at the place it was appended.   *)
C14_AtomicCheckKeepsEveryInstant ==
    /\ [][ \A t \in Threads :
               (StoreStep(t) /\ ~threads[t].overlapped) =>
                   LET ip_address == threads[t].ip_address
                       current_time == threads[t].current_time
                       before == request_history[ip_address]
                       after == request_history'[ip_address]
                       kept == {i \in 1..Len(before) :
                                    current_time - before[i] < WindowSeconds}
                   IN  /\ Len(after) = Cardinality(kept) + 1
                       /\ Last(after) = current_time
                       /\ \A i \in kept :
                              \E j \in 1..(Len(after) - 1) : after[j] = before[i]
       ]_vars
    /\ [](/\ Len(incident_log)
                 = Cardinality({t \in Threads : threads[t].logged_at # 0})
          /\ \A t \in Threads :
                 threads[t].logged_at # 0 =>
                     /\ threads[t].logged_at <= Len(incident_log)
                     /\ incident_log[threads[t].logged_at] = threads[t].incident)

C14_Witness ==
    /\ ticks = 0
    /\ \A t \in Threads : Stored(t) /\ threads[t].ip_address = "10.0.0.1"
    /\ \E t \in Threads : threads[t].overlapped
    /\ Len(request_history["10.0.0.1"]) = 1

(* C15: every send attempt is for an incident already in the incident log,  *)
(* no incident is sent twice, and a thread's call makes at most one send    *)
(* attempt, after which the call is over whatever the outcome.              *)
C15_AppendThenOneSend ==
    /\ \A i \in 1..Len(alerts) : alerts[i] \in 1..Len(incident_log)
    /\ \A i, j \in 1..Len(alerts) : i # j => alerts[i] # alerts[j]
    /\ \A t \in Threads :
           /\ threads[t].sends <= 1
           /\ threads[t].sends = 1 =>
                  /\ threads[t].pc = "done"
                  /\ \E i \in 1..Len(alerts) : alerts[i] = threads[t].logged_at
           /\ threads[t].pc = "send" => threads[t].logged_at # 0
    /\ Len(alerts) = Cardinality({t \in Threads : threads[t].sends = 1})

C15_Witness ==
    /\ \A t \in Threads : threads[t].pc = "done" /\ threads[t].sends = 1
    /\ threads[1].alert = "connect_failed"
    /\ threads[2].alert = "sent"
    /\ alerts = <<2, 1>>

====
